---- MODULE Spec2Model ----
(***************************************************************************)
(* Model of src/randomMap/src/routes/+page.svelte: the random map picker.  *)
(*                                                                         *)
(* The page holds three UI variables (randomMap, isLoading, error) and one *)
(* asynchronous routine, findRandomMap, started by the button.  The        *)
(* routine suspends at every await; one action of the model is the code    *)
(* that runs between two suspensions.  The remote service is the           *)
(* environment: every response it can give (network failure, any status,   *)
(* any body) is a nondeterministic input of the action that consumes it.   *)
(***************************************************************************)
EXTENDS Integers, Sequences, FiniteSets, TLC

(***************************************************************************)
(* Bounds of the model.                                                    *)
(***************************************************************************)
\* number of invocation frames of findRandomMap that may exist at once
NumInv == 2
\* Math.random() is modelled as k / RandDenom, k in 0 .. RandDenom-1
RandDenom == 16
\* the round-trip harness enumerates 1 .. MaxRoundTrip and the digit-length
\* boundaries up to 0xFFFFFF
MaxRoundTrip == 70000

Inv == 1 .. NumInv

(***************************************************************************)
(* Strings that the code manipulates character by character are sequences  *)
(* of one-character strings: "ff" is <<"f", "f">>.                         *)
(***************************************************************************)
LowerDigits == <<"0","1","2","3","4","5","6","7","8","9","a","b","c","d","e","f">>
UpperDigits == <<"0","1","2","3","4","5","6","7","8","9","A","B","C","D","E","F">>

\* JavaScript NaN, the result of parseInt on a string with no leading digit
NaN == -1

\* value of one character in radix 16, or NaN when it is no hex digit
DigitValue(c) ==
    IF \E d \in 1 .. 16 : LowerDigits[d] = c
    THEN (CHOOSE d \in 1 .. 16 : LowerDigits[d] = c) - 1
    ELSE IF \E d \in 1 .. 16 : UpperDigits[d] = c
         THEN (CHOOSE d \in 1 .. 16 : UpperDigits[d] = c) - 1
         ELSE NaN

\* parseInt(s, 16) on a string without sign, blanks or 0x prefix: the value
\* of the longest prefix of hex digits (either case), NaN when it is empty
RECURSIVE ParsePrefix(_, _, _)
ParsePrefix(s, pos, acc) ==
    IF pos > Len(s) \/ DigitValue(s[pos]) = NaN
    THEN acc
    ELSE ParsePrefix(s, pos + 1, acc * 16 + DigitValue(s[pos]))

parseInt16(s) ==
    IF Len(s) = 0 \/ DigitValue(s[1]) = NaN THEN NaN ELSE ParsePrefix(s, 1, 0)

\* Number.prototype.toString(16) on a non-negative integer
RECURSIVE toString16(_)
toString16(n) ==
    IF n < 16
    THEN <<LowerDigits[n + 1]>>
    ELSE toString16(n \div 16) \o <<LowerDigits[(n % 16) + 1]>>

\* String.prototype.padStart(targetLength, padChar)
RECURSIVE padStart(_, _, _)
padStart(s, targetLength, padChar) ==
    IF Len(s) >= targetLength THEN s ELSE padStart(<<padChar>> \o s, targetLength, padChar)

\* parseInt(s) with the radix left out: decimal digits only
RECURSIVE ParsePrefix10(_, _, _)
ParsePrefix10(s, pos, acc) ==
    IF pos > Len(s) \/ DigitValue(s[pos]) = NaN \/ DigitValue(s[pos]) > 9
    THEN acc
    ELSE ParsePrefix10(s, pos + 1, acc * 10 + DigitValue(s[pos]))

hexToDecimalNoRadix(hex) ==
    IF Len(hex) = 0 \/ DigitValue(hex[1]) = NaN \/ DigitValue(hex[1]) > 9
    THEN NaN
    ELSE ParsePrefix10(hex, 1, 0)

hexToDecimal(hex) == parseInt16(hex)

decimalToHexPadded(decimal) == padStart(toString16(decimal), 6, "0")

decimalToHex(decimal) == padStart(toString16(decimal), 1, "0")

\* Math.floor(Math.random() * (max - min + 1)) + min, Math.random() = k / RandDenom
getRandomNumber(min, max, k) == ((k * (max - min + 1)) \div RandDenom) + min

maxAttempts == 10


LoopConditionOffByOne(attempts) == attempts <= maxAttempts

\* line 94: the loop condition of the probe loop
LoopCondition(attempts) == attempts < maxAttempts

(***************************************************************************)
(* Values.                                                                 *)
(***************************************************************************)
\* the null of `error: string | null`
NULL == "null"

\* parsed JSON values: null, the service's error object, a map's details
NullValue == [kind |-> "null", id |-> <<>>]
ErrorBody == [kind |-> "error", id |-> <<>>]
MapBody(hexId) == [kind |-> "map", id |-> hexId]
\* a body response.json() cannot parse (it rejects)
Unparseable == [kind |-> "unparseable", id |-> <<>>]
\* {"docs": []}: data.docs[0] is undefined
NoDocs == [kind |-> "nodocs", id |-> <<>>]

\* no body read (yet)
NoBody == [kind |-> "none", id |-> <<>>]

\* JavaScript truthiness of a value of type MapDetails | null (line 36): an
\* object is truthy, null is not
Truthy(v) == v # NullValue

\* messages of the errors the routine can catch
LatestFailMsg == "Failed to fetch latest map"
NotFoundMsg == "Could not find a valid map after multiple attempts"
NetworkErrorMsg == "TypeError: Failed to fetch"
JsonErrorMsg == "SyntaxError: Unexpected token"
DocsErrorMsg == "TypeError: Cannot read properties of undefined (reading 'id')"
UnexpectedMsg == "An unexpected error occurred"

Error(message) == [isError |-> TRUE, message |-> message]

CatchNoMessage(e) == NULL

\* line 112: e instanceof Error ? e.message : 'An unexpected error occurred'
Catch(e) == IF e.isError THEN e.message ELSE UnexpectedMsg

FinallyLoadingKept == TRUE

\* line 114: the value the finally block gives isLoading
FinallyLoading == FALSE

DisabledNever(loading) == FALSE

\* line 133: disabled={isLoading}; Svelte flushes the DOM in a microtask, before
\* the event loop runs the next click or network callback
Disabled(loading) == loading

\* line 143: {#if error}
ErrorShown(message) == message # NULL /\ message # ""

\* line 149: {#if randomMap}
ItemShown(value) == Truthy(value)

(***************************************************************************)
(* The remote service.                                                     *)
(***************************************************************************)
Statuses == {200, 404, 500}

\* what one fetch can settle with: a rejection or a response with a status
Responses ==
    {[kind |-> "reject", status |-> 0]} \cup {[kind |-> "response", status |-> s] : s \in Statuses}

\* Response.ok
ResponseOk(response) == response.status >= 200 /\ response.status <= 299

\* ids GET /maps/latest may report for docs[0]
LatestIds == {<<"0">>, <<"1">>, <<"A">>, <<"1", "0">>}

LatestBodies == {Unparseable, NoDocs} \cup {MapBody(h) : h \in LatestIds}

\* bodies GET /maps/id/{hexId} may carry, under any status: none that parses,
\* JSON null, the service's error object, the details of the map asked for
DetailBodies(hexId) == {Unparseable, NullValue, ErrorBody, MapBody(hexId)}

checkMapExistsNoCatch(response) ==
    IF response.kind = "reject"
    THEN [threw |-> TRUE, value |-> FALSE]
    ELSE [threw |-> FALSE, value |-> ResponseOk(response)]

\* lines 47-54: the completion of checkMapExists for one settlement of its fetch
checkMapExists(response) ==
    IF response.kind = "reject"
    THEN [threw |-> FALSE, value |-> FALSE]
    ELSE [threw |-> FALSE, value |-> ResponseOk(response)]

fetchLatestStatusNoCheck(response) ==
    IF response.kind = "reject"
    THEN [threw |-> TRUE, error |-> Error(NetworkErrorMsg)]
    ELSE [threw |-> FALSE, error |-> Error("")]

\* lines 41-42: the completion of the first half of fetchLatestMapId
fetchLatestStatus(response) ==
    IF response.kind = "reject"
    THEN [threw |-> TRUE, error |-> Error(NetworkErrorMsg)]
    ELSE IF ~ResponseOk(response)
         THEN [threw |-> TRUE, error |-> Error(LatestFailMsg)]
         ELSE [threw |-> FALSE, error |-> Error("")]

DetailUrlOfMax(randomHex) == <<"0">> \o randomHex

\* line 100: the id interpolated into the detail request
DetailUrl(randomHex) == randomHex

NotFoundCheckNever(value) == FALSE

\* line 108: if (!randomMap)
NotFoundCheck(value) == ~Truthy(value)

(***************************************************************************)
(* State.                                                                  *)
(***************************************************************************)
VARIABLES
    randomMap,       \* line 36
    isLoading,       \* line 37
    error,           \* line 38
    buttonDisabled,  \* the disabled attribute of the button (line 133)
    frame,           \* per invocation of findRandomMap: its position and locals
    net,             \* per invocation: the requests it issued and their answers
    rt               \* the hex round-trip harness

vars == <<randomMap, isLoading, error, buttonDisabled, frame, net, rt>>
ui == <<randomMap, isLoading, error, buttonDisabled>>

NoFrame(pc) ==
    [pc |-> pc, maxDecimal |-> 0, attempts |-> 0, randomDecimal |-> 0, randomHex |-> <<>>]

NoNet ==
    [nLatest |-> 0, nProbe |-> 0, nDetail |-> 0, firstHit |-> 0,
     latest |-> "none", probe |-> "none", detail |-> "none",
     probeId |-> <<>>, detailId |-> <<>>, latestBody |-> NoBody, body |-> NoBody,
     pending |-> 0, thrown |-> NULL, overlapped |-> FALSE, last |-> FALSE,
     prior |-> "none"]

\* lines 41, 49, 100: fetch(...) sends a request, which is then outstanding
Issued(n) == [n EXCEPT !.pending = @ + 1]

NotAwaited(n) == n

\* lines 41, 49, 100: the routine resumes from `await fetch(...)` only when
\* that request has settled
Awaited(n) == [n EXCEPT !.pending = @ - 1]

\* how a settled fetch is recorded
Outcome(response) ==
    IF response.kind = "reject" THEN "reject"
    ELSE IF ResponseOk(response) THEN "ok" ELSE "notok"

RtOff == [pc |-> "off", n |-> 0, hex |-> <<>>, back |-> 0]

MainInit ==
    /\ randomMap = NullValue
    /\ isLoading = FALSE
    /\ error = NULL
    /\ buttonDisabled = FALSE
    /\ frame = [i \in Inv |-> NoFrame("idle")]
    /\ net = [i \in Inv |-> NoNet]

Init == MainInit /\ rt = RtOff

Settled(i) == frame[i].pc = "done"
InProgress(i) == frame[i].pc \notin {"idle", "done"}

(***************************************************************************)
(* findRandomMap, cut at its awaits.                                       *)
(***************************************************************************)
\* lines 113-115 and the return: the invocation ends with the UI as given
Settle(i, n, value, message) ==
    /\ randomMap' = value
    /\ error' = message
    /\ isLoading' = FinallyLoading
    /\ buttonDisabled' = Disabled(FinallyLoading)
    /\ frame' = [frame EXCEPT ![i] = NoFrame("done")]
    /\ net' = [j \in Inv |-> IF j = i THEN [n EXCEPT !.last = TRUE]
                                      ELSE [net[j] EXCEPT !.last = FALSE]]

CatchFinallySilent(i, n, e) == Settle(i, [n EXCEPT !.thrown = Catch(e)], randomMap, error)

\* lines 111-115: an exception reaches the catch block
CatchFinally(i, n, e) == Settle(i, [n EXCEPT !.thrown = Catch(e)], randomMap, Catch(e))

\* lines 108-115: after the loop, with `value` the current randomMap
AfterLoop(i, n, value) ==
    IF NotFoundCheck(value)
    THEN Settle(i, [n EXCEPT !.thrown = Catch(Error(NotFoundMsg))], value,
                Catch(Error(NotFoundMsg)))
    ELSE Settle(i, n, value, error)

\* lines 94-98: the loop test with `attempts`, then either the next sample and
\* its probe request or the code after the loop
LoopHead(i, f, n, attempts) ==
    IF LoopCondition(attempts)
    THEN \E k \in 0 .. RandDenom - 1 :
            LET randomDecimal == getRandomNumber(1, f.maxDecimal, k)
                randomHex == decimalToHex(randomDecimal)
            IN  /\ frame' = [frame EXCEPT ![i] =
                        [f EXCEPT !.pc = "awaitProbe", !.attempts = attempts,
                                  !.randomDecimal = randomDecimal, !.randomHex = randomHex]]
                /\ net' = [net EXCEPT ![i] =
                        Issued([n EXCEPT !.nProbe = @ + 1, !.probeId = randomHex])]
                /\ UNCHANGED ui
    ELSE AfterLoop(i, n, randomMap)

\* what the page showed when the search was triggered
Shown(value, message) ==
    IF ItemShown(value)
    THEN IF ErrorShown(message) THEN "both" ELSE "item"
    ELSE IF ErrorShown(message) THEN "error" ELSE "none"

\* line 84: error = null
EntryError(current) == NULL

EntryRandomMapKept(current) == current

\* line 85: randomMap = null
EntryRandomMap(current) == NullValue

\* lines 82-88: the call, up to the first await
findRandomMap(i) ==
    /\ frame[i].pc \in {"idle", "done"}
    /\ \A j \in Inv : j < i => frame[j].pc \notin {"idle", "done"}
    /\ isLoading' = TRUE
    /\ error' = EntryError(error)
    /\ randomMap' = EntryRandomMap(randomMap)
    /\ buttonDisabled' = Disabled(TRUE)
    /\ frame' = [frame EXCEPT ![i] = NoFrame("awaitLatest")]
    /\ net' = [j \in Inv |->
                IF j = i
                THEN Issued([NoNet EXCEPT !.nLatest = 1, !.prior = Shown(randomMap, error),
                                          !.overlapped = \E k \in Inv \ {i} : InProgress(k)])
                ELSE IF InProgress(j) THEN [net[j] EXCEPT !.overlapped = TRUE] ELSE net[j]]
    /\ UNCHANGED rt

\* lines 129-134: a click on the button, which the browser delivers only while
\* the button is not disabled
ClickButton(i) ==
    /\ ~buttonDisabled
    /\ findRandomMap(i)

\* lines 41-43: the latest-map fetch settles
LatestFetchSettles(i) ==
    /\ frame[i].pc = "awaitLatest"
    /\ \E response \in Responses :
        LET n == Awaited([net[i] EXCEPT !.latest = Outcome(response)])
            c == fetchLatestStatus(response)
        IN  IF c.threw
            THEN CatchFinally(i, n, c.error)
            ELSE /\ frame' = [frame EXCEPT ![i].pc = "awaitLatestJson"]
                 /\ net' = [net EXCEPT ![i] = n]
                 /\ UNCHANGED ui
    /\ UNCHANGED rt

\* lines 43-44, 88-98: the latest-map body is read
LatestJsonSettles(i) ==
    /\ frame[i].pc = "awaitLatestJson"
    /\ \E data \in LatestBodies :
        LET n == [net[i] EXCEPT !.latestBody = data]
        IN  IF data = Unparseable
            THEN CatchFinally(i, n, Error(JsonErrorMsg))
            ELSE IF data = NoDocs
                 THEN CatchFinally(i, n, Error(DocsErrorMsg))
                 ELSE LoopHead(i, [frame[i] EXCEPT !.maxDecimal = hexToDecimal(data.id)], n, 0)
    /\ UNCHANGED rt

\* lines 98-105, then 94-98 again: a probe settles
ProbeSettles(i) ==
    /\ frame[i].pc = "awaitProbe"
    /\ \E response \in Responses :
        LET n == Awaited([net[i] EXCEPT !.probe = Outcome(response)])
            exists == checkMapExists(response)
        IN  IF exists.threw
            THEN CatchFinally(i, n, Error(NetworkErrorMsg))
            ELSE IF exists.value
                 THEN /\ frame' = [frame EXCEPT ![i].pc = "awaitDetail"]
                      /\ net' = [net EXCEPT ![i] =
                              Issued([n EXCEPT !.nDetail = @ + 1, !.firstHit = n.nProbe,
                                               !.detailId = DetailUrl(frame[i].randomHex)])]
                      /\ UNCHANGED ui
                 ELSE LoopHead(i, frame[i], n, frame[i].attempts + 1)
    /\ UNCHANGED rt

\* line 100: the detail fetch settles
DetailFetchSettles(i) ==
    /\ frame[i].pc = "awaitDetail"
    /\ \E response \in Responses :
        LET n == Awaited([net[i] EXCEPT !.detail = Outcome(response)])
        IN  IF response.kind = "reject"
            THEN CatchFinally(i, n, Error(NetworkErrorMsg))
            ELSE /\ frame' = [frame EXCEPT ![i].pc = "awaitDetailJson"]
                 /\ net' = [net EXCEPT ![i] = n]
                 /\ UNCHANGED ui
    /\ UNCHANGED rt

\* lines 101-102, 108-115: the detail body is read
DetailJsonSettles(i) ==
    /\ frame[i].pc = "awaitDetailJson"
    /\ \E data \in DetailBodies(net[i].detailId) :
        LET n == [net[i] EXCEPT !.body = data]
        IN  IF data = Unparseable
            THEN CatchFinally(i, n, Error(JsonErrorMsg))
            ELSE AfterLoop(i, n, data)
    /\ UNCHANGED rt

Next ==
    \E i \in Inv :
        \/ ClickButton(i)
        \/ LatestFetchSettles(i)
        \/ LatestJsonSettles(i)
        \/ ProbeSettles(i)
        \/ DetailFetchSettles(i)
        \/ DetailJsonSettles(i)

Spec == Init /\ [][Next]_vars

\* every network request eventually settles; nothing obliges the user to click
FairSpec ==
    /\ Spec
    /\ \A i \in Inv :
        /\ WF_vars(LatestFetchSettles(i))
        /\ WF_vars(LatestJsonSettles(i))
        /\ WF_vars(ProbeSettles(i))
        /\ WF_vars(DetailFetchSettles(i))
        /\ WF_vars(DetailJsonSettles(i))

(***************************************************************************)
(* findRandomMap called twice with no button in between: the second call   *)
(* is made while the first is in progress.                                 *)
(***************************************************************************)
Call(i) ==
    /\ i \in {1, 2}
    /\ frame[i].pc = "idle"
    /\ findRandomMap(i)

\* the answers tried in the overlap: the latest id is "1"; a failing probe
\* answers with a non-success status and a detail fetch that resolves answers
\* 200 (a rejected probe and a non-success detail answer take the same branches)
OverlapEnv ==
    \A i \in Inv :
        /\ net[i].latestBody.id \in {<<>>, <<"1">>}
        /\ net[i].probe # "reject"
        /\ net[i].detail # "notok"

\* the steps of findRandomMap, with the answers of OverlapEnv
OverlapLatestFetch(i) == LatestFetchSettles(i) /\ OverlapEnv'
OverlapLatestJson(i) == LatestJsonSettles(i) /\ OverlapEnv'
OverlapProbe(i) == ProbeSettles(i) /\ OverlapEnv'
OverlapDetailFetch(i) == DetailFetchSettles(i) /\ OverlapEnv'
OverlapDetailJson(i) == DetailJsonSettles(i) /\ OverlapEnv'

NextOverlap ==
    \E i \in Inv :
        \/ Call(i)
        \/ OverlapLatestFetch(i)
        \/ OverlapLatestJson(i)
        \/ OverlapProbe(i)
        \/ OverlapDetailFetch(i)
        \/ OverlapDetailJson(i)

SpecOverlap == Init /\ [][NextOverlap]_vars

(***************************************************************************)
(* The conversions on their own: n is encoded by decimalToHex, the result  *)
(* decoded by hexToDecimal.                                                *)
(***************************************************************************)
RoundTripInputs ==
    (1 .. MaxRoundTrip)
        \cup {4095, 4096, 4097, 65535, 65536, 65537, 1048575, 1048576, 1048577,
              11259375, 16777214, 16777215}

InitHex ==
    /\ MainInit
    /\ \E n \in RoundTripInputs : rt = [pc |-> "encode", n |-> n, hex |-> <<>>, back |-> 0]

Encode ==
    /\ rt.pc = "encode"
    /\ rt' = [rt EXCEPT !.pc = "decode", !.hex = decimalToHex(rt.n)]
    /\ UNCHANGED <<ui, frame, net>>

Decode ==
    /\ rt.pc = "decode"
    /\ rt' = [rt EXCEPT !.pc = "decoded", !.back = hexToDecimal(rt.hex)]
    /\ UNCHANGED <<ui, frame, net>>

NextHex == Encode \/ Decode

SpecHex == InitHex /\ [][NextHex]_vars

(***************************************************************************)
(* Properties.                                                             *)
(***************************************************************************)

TypeOK ==
    /\ isLoading \in BOOLEAN
    /\ buttonDisabled \in BOOLEAN
    /\ \A i \in Inv : frame[i].attempts \in 0 .. maxAttempts

\* C1: a search whose latest-map lookup answered with a non-success status
\* settles with error = "Failed to fetch latest map" and randomMap = null,
\* having made exactly one latest request, no probe and no detail fetch.
C1_LatestFailureEndsSearch ==
    \A i \in Inv :
        (Settled(i) /\ net[i].latest = "notok") =>
            /\ error = LatestFailMsg
            /\ randomMap = NullValue
            /\ net[i].nLatest = 1
            /\ net[i].nProbe = 0
            /\ net[i].nDetail = 0

C1_Witness ==
    \E i \in Inv : Settled(i) /\ net[i].latest = "notok" /\ error = LatestFailMsg

\* C2: a search whose latest-map lookup gave an id and whose probes all
\* reported non-existence settles after exactly 10 probes and no detail fetch,
\* with the not-found error and randomMap = null.
C2_AllProbesMiss ==
    \A i \in Inv :
        (Settled(i) /\ net[i].latestBody.kind = "map" /\ net[i].firstHit = 0) =>
            /\ net[i].nProbe = 10
            /\ net[i].nDetail = 0
            /\ error = NotFoundMsg
            /\ randomMap = NullValue

C2_Witness ==
    \E i \in Inv :
        /\ Settled(i) /\ net[i].latestBody.kind = "map" /\ net[i].firstHit = 0
        /\ net[i].nProbe = 10 /\ error = NotFoundMsg

\* C3 as stated: once the Nth probe is the first to report existence, one
\* detail fetch for the probed id follows, no further probe is issued, and the
\* search settles with randomMap = the detail body and error = null.
C3_Original ==
    \A i \in Inv :
        net[i].firstHit >= 1 =>
            /\ net[i].firstHit <= 10
            /\ net[i].nDetail = 1
            /\ net[i].detailId = net[i].probeId
            /\ net[i].nProbe = net[i].firstHit
            /\ Settled(i) => (randomMap = net[i].body /\ error = NULL)

\* C3 amended: once the Nth probe is the first to report existence, one detail
\* fetch for the probed id follows and no further probe is issued; if that
\* fetch resolves and its body parses to a JSON object, the search settles with
\* randomMap = that body and error = null.
C3_FirstHitThenDetail ==
    \A i \in Inv :
        net[i].firstHit >= 1 =>
            /\ net[i].firstHit <= 10
            /\ net[i].nDetail = 1
            /\ net[i].detailId = net[i].probeId
            /\ net[i].nProbe = net[i].firstHit
            /\ (Settled(i) /\ net[i].body.kind \in {"map", "error"}) =>
                   (randomMap = net[i].body /\ error = NULL)

C3_Witness ==
    \E i \in Inv :
        /\ Settled(i) /\ net[i].firstHit = 3 /\ net[i].detailId = <<"a">>
        /\ randomMap = MapBody(<<"a">>) /\ error = NULL

\* C4: if a probe reported existence and the detail fetch of that id then
\* failed (rejected, or answered with a non-success status), the search
\* settles with an error message and randomMap = null.
C4_DetailFailureIsError ==
    \A i \in Inv :
        (Settled(i) /\ net[i].firstHit >= 1 /\ net[i].detail \in {"reject", "notok"}) =>
            (error # NULL /\ randomMap = NullValue)

\* C5: no search issues more than 10 probes.
C5_ProbeBudget == \A i \in Inv : net[i].nProbe <= 10

C5_Witness == \E i \in Inv : net[i].nProbe = 10 /\ frame[i].pc = "awaitProbe"

\* the step in which the probe of invocation i settles
ProbeStep(i) == frame[i].pc = "awaitProbe" /\ <<frame[i], net[i]>>' # <<frame[i], net[i]>>

\* C6: a probe that is rejected or answered with a non-success status leaves
\* error alone and issues the next probe, unless it was the 10th, and then
\* the search ends with the not-found error.
C6_ProbeFailureAbsorbed ==
    [][\A i \in Inv :
        (ProbeStep(i) /\ net'[i].probe \in {"reject", "notok"}) =>
            IF net[i].nProbe < 10
            THEN /\ frame'[i].pc = "awaitProbe"
                 /\ net'[i].nProbe = net[i].nProbe + 1
                 /\ error' = NULL
                 /\ isLoading'
            ELSE /\ Settled(i)'
                 /\ error' = NotFoundMsg]_vars

C6_Witness ==
    \E i \in Inv :
        /\ frame[i].pc = "awaitProbe" /\ net[i].probe = "reject"
        /\ net[i].nProbe = 2 /\ error = NULL

\* C7: every search that was started settles, with isLoading = FALSE; the flag
\* is FALSE when a search starts, TRUE from then until it settles, and the
\* settling step clears it.
C7_SearchSettles ==
    /\ \A i \in Inv : InProgress(i) ~> (Settled(i) /\ ~isLoading)
    /\ [](\A i \in Inv : InProgress(i) => isLoading)
    /\ [][\A i \in Inv :
            /\ (~InProgress(i) /\ InProgress(i)') => (~isLoading /\ isLoading')
            /\ (InProgress(i) /\ Settled(i)') => (isLoading /\ ~isLoading')]_vars

C7_Witness ==
    \E i \in Inv : Settled(i) /\ ~isLoading /\ net[i].nProbe = 10

\* C8: once a search has settled, exactly one of the item view and the error
\* banner is shown.
C8_ExactlyOneShown ==
    (~isLoading /\ \E i \in Inv : Settled(i)) => (ItemShown(randomMap) # ErrorShown(error))

C8_Witness ==
    /\ ~isLoading
    /\ \E i \in Inv : Settled(i) /\ net[i].body = NullValue
    /\ ErrorShown(error)

\* C9: every sampled candidate lies in 1 .. maxId, for every maxId >= 0.
C9_CandidateInRange ==
    \A i \in Inv :
        frame[i].pc = "awaitProbe" =>
            (1 <= frame[i].randomDecimal /\ frame[i].randomDecimal <= frame[i].maxDecimal)

\* C10: decoding the encoding of n gives n back, for the n tried.
C10_RoundTrip == rt.pc = "decoded" => rt.back = rt.n

C10_Witness == rt.pc = "decoded" /\ rt.n = 16777215 /\ Len(rt.hex) = 6

\* the number a string of lower-case hex digits denotes, read digit by digit
\* from the right (no use of hexToDecimal)
RECURSIVE LowerHexValue(_)
LowerHexValue(s) ==
    IF Len(s) = 0
    THEN 0
    ELSE 16 * LowerHexValue(SubSeq(s, 1, Len(s) - 1))
            + (CHOOSE d \in 0 .. 15 : LowerDigits[d + 1] = s[Len(s)])

\* C11: decimalToHex(n), n >= 1, is the shortest base-16 numeral of n: not
\* empty, over 0-9 and a-f only, not starting with "0", denoting n;
\* decimalToHex(1) = "1" and decimalToHex(255) = "ff".
C11_MinimalLowerHex ==
    rt.pc \in {"decode", "decoded"} =>
        /\ Len(rt.hex) >= 1
        /\ \A p \in 1 .. Len(rt.hex) : \E d \in 1 .. 16 : LowerDigits[d] = rt.hex[p]
        /\ rt.hex[1] # "0"
        /\ LowerHexValue(rt.hex) = rt.n
        /\ rt.n = 1 => rt.hex = <<"1">>
        /\ rt.n = 255 => rt.hex = <<"f", "f">>

C11_Witness == rt.pc = "decode" /\ rt.n = 255 /\ rt.hex = <<"f", "f">>

\* C12: a search that settled with the not-found error issued exactly 10
\* probes, none of which reported existence.
C12_NotFoundOnlyWhenExhausted ==
    \A i \in Inv :
        (Settled(i) /\ error = NotFoundMsg) => (net[i].nProbe = 10 /\ net[i].firstHit = 0)

\* C13: a search never has two requests outstanding; it issues a probe only
\* after its latest lookup gave an id, issues each request only when the one
\* before it has settled, and issues the detail fetch (once) only after a probe
\* reported existence, after which it issues no probe.
C13_RequestsInSequence ==
    /\ [](\A i \in Inv :
            /\ net[i].pending <= 1
            /\ net[i].pending = 1 <=> frame[i].pc \in {"awaitLatest", "awaitProbe", "awaitDetail"}
            /\ net[i].nProbe >= 1 => (net[i].latest = "ok" /\ net[i].latestBody.kind = "map")
            /\ net[i].nDetail >= 1 =>
                   (net[i].nDetail = 1 /\ net[i].probe = "ok" /\ net[i].firstHit = net[i].nProbe))
    /\ [][\A i \in Inv :
            /\ net'[i].nProbe > net[i].nProbe =>
                   /\ net[i].nDetail = 0 /\ net'[i].nDetail = 0
                   /\ net[i].pending = IF net[i].nProbe = 0 THEN 0 ELSE 1
                   /\ net[i].nProbe >= 1 => net'[i].probe \in {"reject", "notok"}
            /\ net'[i].nDetail > net[i].nDetail =>
                   (frame[i].pc = "awaitProbe" /\ net'[i].probe = "ok")]_vars

C13_Witness ==
    \E i \in Inv :
        /\ frame[i].pc = "awaitDetail" /\ net[i].pending = 1
        /\ net[i].nLatest = 1 /\ net[i].nProbe = 4 /\ net[i].nDetail = 1

\* C14: the button is disabled exactly while isLoading holds, so no click
\* starts a search while one is in progress: a search starts only when none
\* is in progress and isLoading is FALSE, and at most one is ever in progress.
C14_OneSearchAtATime ==
    /\ [](/\ buttonDisabled = isLoading
          /\ Cardinality({i \in Inv : InProgress(i)}) <= 1
          /\ isLoading => \A i \in Inv : ~ENABLED ClickButton(i))
    /\ [][\A i \in Inv :
            (~InProgress(i) /\ InProgress(i)') =>
                (~isLoading /\ \A j \in Inv : ~InProgress(j))]_vars

C14_Witness ==
    /\ isLoading /\ buttonDisabled
    /\ \E i \in Inv : frame[i].pc = "awaitProbe" /\ \A j \in Inv \ {i} : ~InProgress(j)

\* two calls overlapped and both have returned
BothSettled ==
    /\ Settled(1) /\ Settled(2)
    /\ net[1].overlapped /\ net[2].overlapped

\* the invocation read a detail body that parsed, and so assigned randomMap
Assigned(i) == net[i].body.kind \in {"null", "map", "error"}

C16_OutcomeClearedWhileSearching ==
    \A i \in Inv :
        InProgress(i) => (isLoading /\ randomMap = NullValue /\ error = NULL)

C16_Witness ==
    \E i \in Inv :
        /\ frame[i].pc = "awaitDetailJson" /\ net[i].prior = "item"
        /\ isLoading /\ randomMap = NullValue /\ error = NULL

====
